---- MODULE Spec2Model ----
(***************************************************************************)
(* The repository status view of GitHubConnectCard (the version that has   *)
(* the Reset button): the prefetched cache, the two single-id lock markers *)
(* and the network operations in flight (repository list, summary and      *)
(* detail prefetch, index streams, delete requests, reconcile reads).      *)
(* One action is one handler or one callback of the component, followed by *)
(* the render that publishes its state updates.                            *)
(***************************************************************************)
EXTENDS Integers, Sequences, FiniteSets, TLC

\* ------------------------------------------------------------------ bounds

\* User operations that have not been settled yet, over all repositories: an
\* index stream (open, or ended with its reconcile read in flight) or a reset
\* (its delete request in flight, or the summary re-read that follows it).
MaxInFlight == 2

\* How far above the known total the file events are followed.
MaxExcess == 1

\* Refresh cycles in flight at the same time.
MaxCycles == 2

\* The longest repository list the list endpoint answers with, where the
\* length of the list is what matters.
MaxRepos == 4

\* ---------------------------------------------------------------- constants

PREFETCH_FILES_FOR == 3

\* indexingRepoId / deletingRepoId hold a repository id or null.
Null == 0

\* The repositories the list endpoint returns, in the order it returns them.
RepoList == <<1, 2>>

Repos == {RepoList[i] : i \in DOMAIN RepoList}

\* The paths of a repository's files, in the order the detail endpoint lists
\* them (the first repository has two files, the second none yet), and a path
\* no file list contains.
PathsOf(repoId) == IF repoId = RepoList[1] THEN <<"a", "b">> ELSE <<>>

OtherPath == "z"

Statuses == {"indexed", "not-indexed"}

\* An optional field (counts?: Counts, files?: FileStatus[]): absent or one value.
None == <<>>

Some(x) == <<x>>

\* The paths a file event of the repository's stream can name.
EventPathsOf ==
  [repoId \in Repos |->
     {PathsOf(repoId)[i] : i \in DOMAIN PathsOf(repoId)} \cup {OtherPath}]

EventPaths(repoId) == EventPathsOf[repoId]

\* Detail responses: every assignment of a status to the repository's paths.
FileListsOf ==
  [repoId \in Repos |->
     {[i \in DOMAIN PathsOf(repoId) |-> [path |-> PathsOf(repoId)[i], status |-> s[i]]] :
        s \in [DOMAIN PathsOf(repoId) -> Statuses]}]

FileLists(repoId) == FileListsOf[repoId]

\* Summary responses: the counts of the repository's files, 0 <= indexed <= total.
CountsResponsesOf ==
  [repoId \in Repos |->
     {[total |-> Len(PathsOf(repoId)), indexed |-> n] : n \in 0..Len(PathsOf(repoId))}]

CountsResponses(repoId) == CountsResponsesOf[repoId]

\* The server's file list of a repository before any of its files is indexed
\* and after an indexing run has gone through all of them, and the summary
\* the server gives for a file list.
FilesBeforeIndexing(repoId) ==
  [i \in DOMAIN PathsOf(repoId) |->
     [path |-> PathsOf(repoId)[i], status |-> "not-indexed"]]

FilesAfterIndexing(repoId) ==
  [i \in DOMAIN PathsOf(repoId) |->
     [path |-> PathsOf(repoId)[i], status |-> "indexed"]]

SummaryOf(files) ==
  [total |-> Len(files),
   indexed |-> Cardinality({i \in DOMAIN files : files[i].status = "indexed"})]

\* What the chain of a read hands to its last callback: the parsed body of an
\* OK response, or nothing (null for a non-OK response; a rejected fetch never
\* reaches the callback).
SummaryAnswersOf ==
  [repoId \in Repos |-> {None} \cup {Some(c) : c \in CountsResponses(repoId)}]

SummaryAnswers(repoId) == SummaryAnswersOf[repoId]

FilesAnswersOf ==
  [repoId \in Repos |-> {None} \cup {Some(f) : f \in FileLists(repoId)}]

FilesAnswers(repoId) == FilesAnswersOf[repoId]

\* ------------------------------------------------------------- pure helpers

\* prev[repoId] || {}
EmptyEntry == [counts |-> None, files |-> None]

Get(prev, repoId) == IF repoId \in DOMAIN prev THEN prev[repoId] ELSE EmptyEntry

\* A merge that returns the one entry alone: { [repoId]: entry }
PutAlone(prev, repoId, entry) == [x \in {repoId} |-> entry]

\* { ...prev, [repoId]: entry }
Put(prev, repoId, entry) ==
  [x \in DOMAIN prev \cup {repoId} |-> IF x = repoId THEN entry ELSE prev[x]]

\* files.reduce((n, f) => n + (f.status === "indexed" ? 1 : 0), 0)
nIdx(files) == Cardinality({i \in DOMAIN files : files[i].status = "indexed"})

Max(a, b) == IF a >= b THEN a ELSE b

\* A prefetch width that does not cut the list.
topAll(list) == list

\* list.slice(0, PREFETCH_FILES_FOR)
top(list) == SubSeq(list, 1, IF Len(list) < PREFETCH_FILES_FOR THEN Len(list) ELSE PREFETCH_FILES_FOR)

\* A summary merge that keeps counts that are already known.
mergeCountsOnce(prev, repoId, counts) ==
  Put(prev, repoId,
      [counts |-> IF Get(prev, repoId).counts # None
                    THEN Get(prev, repoId).counts
                    ELSE Some(counts),
       files |-> Get(prev, repoId).files])

\* The summary merge of loadRepos, handleUnindex and refreshAll.
mergeCounts(prev, repoId, counts) ==
  Put(prev, repoId, [counts |-> Some(counts), files |-> Get(prev, repoId).files])

\* A detail merge that always derives the counts from the incoming list.
mergeFilesRecounting(prev, repoId, files) ==
  Put(prev, repoId,
      [counts |-> Some([total |-> Len(files), indexed |-> nIdx(files)]),
       files |-> Some(files)])

\* The detail merge of loadRepos.
mergeFiles(prev, repoId, files) ==
  Put(prev, repoId,
      [counts |-> IF Get(prev, repoId).counts # None
                    THEN Get(prev, repoId).counts
                    ELSE Some([total |-> Len(files), indexed |-> nIdx(files)]),
       files |-> Some(files)])

\* bumpCounts with an upper clamp at total, which the code does not have.
bumpCountsClamped(prev, repoId, deltaIndexed) ==
  LET cur == Get(prev, repoId)
      counts == IF cur.counts # None THEN cur.counts[1] ELSE [total |-> 0, indexed |-> 0]
      raised == Max(0, counts.indexed + deltaIndexed)
      next == [total |-> counts.total,
               indexed |-> IF raised > counts.total THEN counts.total ELSE raised]
  IN  Put(prev, repoId, [counts |-> Some(next), files |-> cur.files])

bumpCounts(prev, repoId, deltaIndexed) ==
  LET cur == Get(prev, repoId)
      counts == IF cur.counts # None THEN cur.counts[1] ELSE [total |-> 0, indexed |-> 0]
      next == [total |-> counts.total, indexed |-> Max(0, counts.indexed + deltaIndexed)]
  IN  Put(prev, repoId, [counts |-> Some(next), files |-> cur.files])

markFileIndexed(prev, repoId, path) ==
  LET cur == Get(prev, repoId)
  IN  IF cur.files = None THEN prev
      ELSE Put(prev, repoId,
               [counts |-> cur.counts,
                files |-> Some([i \in DOMAIN cur.files[1] |->
                                  IF cur.files[1][i].path = path
                                    THEN [path |-> cur.files[1][i].path, status |-> "indexed"]
                                    ELSE cur.files[1][i]])])

\* A reconcile merge that keeps the counts the entry already has.
reconcileKeepingCounts(prev, repoId, files) ==
  Put(prev, repoId,
      [counts |-> IF Get(prev, repoId).counts # None
                    THEN Get(prev, repoId).counts
                    ELSE Some([total |-> Len(files), indexed |-> nIdx(files)]),
       files |-> Some(files)])

\* The reconcile merge of the done listener.
reconcile(prev, repoId, files) ==
  Put(prev, repoId,
      [counts |-> Some([total |-> Len(files), indexed |-> nIdx(files)]),
       files |-> Some(files)])

\* An optimistic update that zeroes the counter and keeps the file statuses.
unindexedCountsOnly(prev, repoId) ==
  LET cur == Get(prev, repoId)
  IN  Put(prev, repoId,
          [counts |-> IF cur.counts # None
                        THEN Some([total |-> cur.counts[1].total, indexed |-> 0])
                        ELSE None,
           files |-> cur.files])

\* An optimistic update that makes up counts where none are known.
unindexedInventingTotal(prev, repoId) ==
  LET cur == Get(prev, repoId)
  IN  Put(prev, repoId,
          [counts |-> IF cur.counts # None
                        THEN Some([total |-> cur.counts[1].total, indexed |-> 0])
                        ELSE Some([total |-> 0, indexed |-> 0]),
           files |-> IF cur.files # None
                       THEN Some([i \in DOMAIN cur.files[1] |->
                                    [path |-> cur.files[1][i].path, status |-> "not-indexed"]])
                       ELSE None])

\* The optimistic update of handleUnindex.
unindexed(prev, repoId) ==
  LET cur == Get(prev, repoId)
  IN  Put(prev, repoId,
          [counts |-> IF cur.counts # None
                        THEN Some([total |-> cur.counts[1].total, indexed |-> 0])
                        ELSE None,
           files |-> IF cur.files # None
                       THEN Some([i \in DOMAIN cur.files[1] |->
                                    [path |-> cur.files[1][i].path, status |-> "not-indexed"]])
                       ELSE None])

\* -------------------------------------------------------------------- state

VARIABLES
  status,          \* "idle" | "loading" | "connected" | "error"
  repos,           \* the repository list (ids, in the order returned)
  prefetched,      \* repository id -> [counts, files]; no key: no entry yet
  indexingRepoId,  \* the single "indexing" marker
  deletingRepoId,  \* the single "deleting" marker
  listRequest,     \* "none" | "pending" | "answered": the fetch of loadRepos
  summaryPending,  \* repositories whose bulk summary request is in flight
  filesPending,    \* repositories whose bulk detail request is in flight
  streams,         \* repository id -> number of open EventSources
  reconciles,      \* repository id -> reconcile reads in flight (done listener)
  deletes,         \* repository id -> hadCounts -> delete requests in flight
  rereads,         \* repository id -> post-delete summary reads in flight
  globRefreshing,  \* the reentrancy flag of refreshAll
  cycles,          \* refresh cycles in flight: unanswered repositories -> how many
  autoRefresher,   \* whether the interval of the auto-refresh effect is set
  mounted,         \* whether the component is mounted
  dropdowns        \* repository id -> the state of its RepoFilesDropdown

\* The state of the refresh and of the component's life cycle.
viewVars == <<globRefreshing, cycles, autoRefresher, mounted>>

vars ==
  <<status, repos, prefetched, indexingRepoId, deletingRepoId, listRequest,
    summaryPending, filesPending, streams, reconciles, deletes, rereads,
    globRefreshing, cycles, autoRefresher, mounted, dropdowns>>

\* What a fetch can come to: an OK response, a non-OK response, a rejection.
Outcomes == {"ok", "notok", "rejected"}

Init ==
  /\ status = "idle"
  /\ repos = <<>>
  /\ prefetched = [x \in {} |-> EmptyEntry]
  /\ indexingRepoId = Null
  /\ deletingRepoId = Null
  /\ listRequest = "none"
  /\ summaryPending = {}
  /\ filesPending = {}
  /\ streams = [r \in Repos |-> 0]
  /\ reconciles = [r \in Repos |-> 0]
  /\ deletes = [r \in Repos |-> [h \in BOOLEAN |-> 0]]
  /\ rereads = [r \in Repos |-> 0]
  /\ globRefreshing = FALSE
  /\ cycles = [P \in SUBSET Repos \ {{}} |-> 0]
  /\ autoRefresher = FALSE
  /\ mounted = TRUE
  /\ dropdowns = [x \in {} |-> EmptyEntry]

\* The file dropdown of a repository's row as it mounts: closed, not loading,
\* its counts and files taken from the props (useState(countsProp ?? null)).
\* countsProp is the counts prop as the load in flight sees it.
RepoFilesDropdown(repoId) ==
  [open |-> FALSE, loading |-> FALSE, countsProp |-> FALSE,
   counts |-> Get(prefetched, repoId).counts,
   files |-> Get(prefetched, repoId).files]

\* The render after a write to prefetched[repoId] hands the entry to the
\* row's dropdown, whose two prop effects run for the props that are new
\* objects (fields): if (countsProp) setCounts(countsProp), and the same
\* for files.
propsSync(repoId, fields) ==
  dropdowns' =
    IF repoId \in DOMAIN dropdowns
      THEN [dropdowns EXCEPT
              ![repoId].counts =
                 IF "counts" \in fields /\ Get(prefetched', repoId).counts # None
                   THEN Get(prefetched', repoId).counts ELSE @,
              ![repoId].files =
                 IF "files" \in fields /\ Get(prefetched', repoId).files # None
                   THEN Get(prefetched', repoId).files ELSE @]
      ELSE dropdowns

\* The user operations that are not settled yet.
Unsettled ==
  LET Sum(f) == f[RepoList[1]] + f[RepoList[2]]
  IN  Sum(streams) + Sum(reconciles) + Sum(rereads)
        + Sum([r \in Repos |-> deletes[r][TRUE] + deletes[r][FALSE]])

InList(repoId) == \E i \in DOMAIN repos : repos[i] = repoId

\* --------------------------------------------------------------- loadRepos

\* The mount effect calls loadRepos, which runs up to its await. (The state
\* updates of an unmounted component are dropped: its callbacks are followed
\* only while it is mounted.)
loadRepos ==
  /\ mounted
  /\ UNCHANGED viewVars
  /\ listRequest = "none"
  /\ status' = "loading"
  /\ listRequest' = "pending"
  /\ UNCHANGED <<repos, prefetched, indexingRepoId, deletingRepoId, summaryPending,
                 filesPending, streams, reconciles, deletes, rereads>>
  /\ UNCHANGED dropdowns

\* A loadRepos that goes on to the prefetch waves whatever the list answer was.
listResponseUnchecked(outcome) ==
  /\ mounted
  /\ UNCHANGED <<globRefreshing, cycles, mounted, autoRefresher>>
  /\ listRequest = "pending"
  /\ listRequest' = "answered"
  /\ status' = IF outcome = "ok" THEN "connected"
               ELSE IF outcome = "notok" THEN "error" ELSE "idle"
  /\ repos' = IF outcome = "ok" THEN RepoList ELSE repos
  /\ summaryPending' = {RepoList[i] : i \in DOMAIN RepoList}
  /\ filesPending' = {top(RepoList)[i] : i \in DOMAIN top(RepoList)}
  /\ UNCHANGED <<prefetched, indexingRepoId, deletingRepoId, streams, reconciles,
                 deletes, rereads>>
  /\ dropdowns' = IF outcome = "ok"
                    THEN [r \in {RepoList[i] : i \in DOMAIN RepoList} |-> RepoFilesDropdown(r)]
                    ELSE dropdowns

\* loadRepos after its await, for a list endpoint that answers with list: the
\* list answer and the two prefetch waves; the render that follows a
\* connected status runs the auto-refresh effect, which sets the interval.
listResponseOf(list, outcome) ==
  /\ mounted
  /\ UNCHANGED <<globRefreshing, cycles, mounted>>
  /\ listRequest = "pending"
  /\ listRequest' = "answered"
  /\ IF outcome = "ok"
       THEN /\ repos' = list
            /\ status' = "connected"
            /\ autoRefresher' = TRUE
            /\ summaryPending' = {list[i] : i \in DOMAIN list}
            /\ filesPending' = {top(list)[i] : i \in DOMAIN top(list)}
       ELSE /\ status' = IF outcome = "notok" THEN "error" ELSE "idle"
            /\ UNCHANGED <<repos, summaryPending, filesPending, autoRefresher>>
  /\ UNCHANGED <<prefetched, indexingRepoId, deletingRepoId, streams, reconciles,
                 deletes, rereads>>
  /\ dropdowns' = IF outcome = "ok"
                    THEN [r \in {list[i] : i \in DOMAIN list} |-> RepoFilesDropdown(r)]
                    ELSE dropdowns

\* The list endpoint answers with RepoList.
listResponse(outcome) == listResponseOf(RepoList, outcome)

\* A summary callback for which one failing request fails the whole load.
summaryResponseFatal(repoId, data) ==
  /\ mounted
  /\ UNCHANGED viewVars
  /\ repoId \in summaryPending
  /\ summaryPending' = IF data # None THEN summaryPending \ {repoId} ELSE {}
  /\ status' = IF data # None THEN status ELSE "error"
  /\ prefetched' = IF data # None THEN mergeCounts(prefetched, repoId, data[1])
                                  ELSE prefetched
  /\ UNCHANGED <<repos, indexingRepoId, deletingRepoId, listRequest,
                 filesPending, streams, reconciles, deletes, rereads>>
  /\ IF data # None
       THEN propsSync(repoId, {"counts"})
       ELSE UNCHANGED dropdowns

\* One summary request of the first wave settles.
summaryResponse(repoId, data) ==
  /\ mounted
  /\ UNCHANGED viewVars
  /\ repoId \in summaryPending
  /\ summaryPending' = summaryPending \ {repoId}
  /\ prefetched' = IF data # None THEN mergeCounts(prefetched, repoId, data[1])
                                  ELSE prefetched
  /\ UNCHANGED <<status, repos, indexingRepoId, deletingRepoId, listRequest,
                 filesPending, streams, reconciles, deletes, rereads>>
  /\ IF data # None
       THEN propsSync(repoId, {"counts"})
       ELSE UNCHANGED dropdowns

\* One detail request of the second wave settles.
filesResponse(repoId, data) ==
  /\ mounted
  /\ UNCHANGED viewVars
  /\ repoId \in filesPending
  /\ filesPending' = filesPending \ {repoId}
  /\ prefetched' = IF data # None THEN mergeFiles(prefetched, repoId, data[1])
                                  ELSE prefetched
  /\ UNCHANGED <<status, repos, indexingRepoId, deletingRepoId, listRequest,
                 summaryPending, streams, reconciles, deletes, rereads>>
  /\ IF data # None
       THEN propsSync(repoId, IF Get(prefetched, repoId).counts = None
                                THEN {"counts", "files"} ELSE {"files"})
       ELSE UNCHANGED dropdowns

\* --------------------------------------------------- handleIndexLive (streams)

\* const isIndexing = indexingRepoId === r.id; const isDeleting = deletingRepoId === r.id
isIndexing(repoId) == indexingRepoId = repoId

isDeleting(repoId) == deletingRepoId = repoId

\* disabled={isIndexing || isDeleting} of the "Index now" and the "Reset" button
buttonsDisabled(repoId) == isIndexing(repoId) \/ isDeleting(repoId)

\* The repository's row is rendered, so its buttons can be clicked.
Rendered(repoId) == status = "connected" /\ InList(repoId)

\* handleIndexLive up to the registration of the listeners.
handleIndexLive(repoId) ==
  /\ indexingRepoId' = repoId
  /\ streams' = [streams EXCEPT ![repoId] = @ + 1]
  /\ UNCHANGED <<status, repos, prefetched, deletingRepoId, listRequest,
                 summaryPending, filesPending, reconciles, deletes, rereads>>

\* A click on "Index now": a disabled button runs no handler.
clickIndexNow(repoId) ==
  /\ mounted
  /\ UNCHANGED viewVars
  /\ Rendered(repoId)
  /\ Unsettled < MaxInFlight
  /\ IF buttonsDisabled(repoId)
       THEN UNCHANGED <<status, repos, prefetched, indexingRepoId, deletingRepoId,
                        listRequest, summaryPending, filesPending, streams,
                        reconciles, deletes, rereads>>
       ELSE handleIndexLive(repoId)
  /\ UNCHANGED dropdowns

\* The "file" listener of an open stream: data = {path, ok}.
fileEvent(repoId, path, ok) ==
  /\ mounted
  /\ UNCHANGED viewVars
  /\ streams[repoId] > 0
  /\ ok /\ Get(prefetched, repoId).counts # None
        => Get(prefetched, repoId).counts[1].indexed
             < Get(prefetched, repoId).counts[1].total + MaxExcess
  /\ UNCHANGED <<status, repos, indexingRepoId, deletingRepoId, listRequest,
                 summaryPending, filesPending, streams, reconciles, deletes, rereads>>
  /\ prefetched' = IF ok
                     THEN markFileIndexed(bumpCounts(prefetched, repoId, 1), repoId, path)
                     ELSE prefetched
  /\ IF ok
       THEN propsSync(repoId, {"counts", "files"})
       ELSE UNCHANGED dropdowns

\* The data of a "file" message as it comes over the stream: a text, here a
\* sequence of tokens. The texts that are followed: the message the server
\* means to send ({"path": p, "ok": b}), the same with its members swapped,
\* every proper prefix of one such message (a message that was cut), and a
\* few texts that are JSON but not the expected object.
Message(path, okToken) == <<"{", "path", ":", path, ",", "ok", ":", okToken, "}">>

Swapped(path, okToken) == <<"{", "ok", ":", okToken, ",", "path", ":", path, "}">>

PayloadsOf ==
  [repoId \in Repos |->
     LET whole == {Message(p, b) : p \in EventPaths(repoId), b \in {"true", "false"}}
     IN  whole
           \cup {Swapped(p, b) : p \in EventPaths(repoId), b \in {"true", "false"}}
           \cup {SubSeq(Message(OtherPath, "true"), 1, k) : k \in 0..8}
           \cup {<<"null">>, <<"true">>, <<"{", "}">>,
                 <<"{", "ok", ":", "true", "}">>,
                 <<"{", "path", ":", OtherPath, "}">>,
                 <<"{", "ok", ":", "null", ",", "path", ":", OtherPath, "}">>}]

Payloads(repoId) == PayloadsOf[repoId]

\* JSON.parse on such a text: nothing when it throws (a SyntaxError),
\* otherwise the value: a literal, or an object as the sequence of its
\* members. Keys are "path" and "ok"; a member's value is one token.
Literals == {"null", "true", "false"}

IsValue(token) == token \notin {"{", "}", ":", ","}

RECURSIVE members(_, _)
members(text, i) ==
  \* the members from position i on, up to the closing brace at the end
  IF i + 2 > Len(text) THEN None
  ELSE IF ~(text[i] \in {"path", "ok"} /\ text[i + 1] = ":" /\ IsValue(text[i + 2]))
    THEN None
  ELSE IF i + 3 = Len(text) /\ text[i + 3] = "}"
    THEN Some(<<[key |-> text[i], value |-> text[i + 2]]>>)
  ELSE IF i + 3 < Len(text) /\ text[i + 3] = ","
    THEN LET rest == members(text, i + 4)
         IN  IF rest = None THEN None
             ELSE Some(<<[key |-> text[i], value |-> text[i + 2]]>> \o rest[1])
  ELSE None

JSONparse(text) ==
  IF Len(text) = 1 /\ text[1] \in Literals THEN Some(text[1])
  ELSE IF Len(text) = 2 /\ text[1] = "{" /\ text[2] = "}" THEN Some(<<>>)
  ELSE IF Len(text) > 2 /\ text[1] = "{" THEN members(text, 2)
  ELSE None

\* data.key of a parsed object (the last member of that key; undefined when
\* there is none). Undefined stands for undefined as a path: it is the path
\* of no file.
Undefined == "undefined"

RECURSIVE field(_, _)
field(object, key) ==
  IF object = <<>> THEN Undefined
  ELSE IF object[Len(object)].key = key THEN object[Len(object)].value
  ELSE field(SubSeq(object, 1, Len(object) - 1), key)

\* Whether the body of the try block gets to run bumpCounts and
\* markFileIndexed, for what JSON.parse has come to: it has not thrown,
\* reading .ok has not thrown (data is not null) and data.ok is truthy.
applies(data) ==
  /\ data # None
  /\ data[1] \notin Literals
  /\ field(data[1], "ok") \notin {Undefined, "false", "null"}

\* The "done" listener: close, release the marker, issue the reconcile read.
doneEvent(repoId) ==
  /\ mounted
  /\ UNCHANGED viewVars
  /\ streams[repoId] > 0
  /\ streams' = [streams EXCEPT ![repoId] = @ - 1]
  /\ indexingRepoId' = Null
  /\ reconciles' = [reconciles EXCEPT ![repoId] = @ + 1]
  /\ UNCHANGED <<status, repos, prefetched, deletingRepoId, listRequest,
                 summaryPending, filesPending, deletes, rereads>>
  /\ UNCHANGED dropdowns

\* An error handler that reconciles the way the done listener does.
errorEventReconciling(repoId) ==
  /\ mounted
  /\ UNCHANGED viewVars
  /\ streams[repoId] > 0
  /\ streams' = [streams EXCEPT ![repoId] = @ - 1]
  /\ indexingRepoId' = Null
  /\ reconciles' = [reconciles EXCEPT ![repoId] = @ + 1]
  /\ UNCHANGED <<status, repos, prefetched, deletingRepoId, listRequest,
                 summaryPending, filesPending, deletes, rereads>>
  /\ UNCHANGED dropdowns

\* An error handler that closes the stream and leaves the marker set.
errorEventKeepingMarker(repoId) ==
  /\ mounted
  /\ UNCHANGED viewVars
  /\ streams[repoId] > 0
  /\ streams' = [streams EXCEPT ![repoId] = @ - 1]
  /\ UNCHANGED <<status, repos, prefetched, indexingRepoId, deletingRepoId, listRequest,
                 summaryPending, filesPending, reconciles, deletes, rereads>>
  /\ UNCHANGED dropdowns

\* es.onerror: close and release the marker.
errorEvent(repoId) ==
  /\ mounted
  /\ UNCHANGED viewVars
  /\ streams[repoId] > 0
  /\ streams' = [streams EXCEPT ![repoId] = @ - 1]
  /\ indexingRepoId' = Null
  /\ UNCHANGED <<status, repos, prefetched, deletingRepoId, listRequest,
                 summaryPending, filesPending, reconciles, deletes, rereads>>
  /\ UNCHANGED dropdowns

\* A listener with no try/catch around it, whose error ends the stream.
fileMessageStrict(repoId, text) ==
  LET data == JSONparse(text)
  IN  IF data = None
        THEN errorEvent(repoId)
        ELSE IF applies(data)
               THEN fileEvent(repoId, field(data[1], "path"), TRUE)
               ELSE fileEvent(repoId, Undefined, FALSE)

\* The "file" listener on the text of a message: try { data = JSON.parse(...);
\* if (data.ok) {...} } catch {}.
fileMessage(repoId, text) ==
  LET data == JSONparse(text)
  IN  IF applies(data)
        THEN fileEvent(repoId, field(data[1], "path"), TRUE)
        ELSE fileEvent(repoId, Undefined, FALSE)

\* A reconcile callback that drops the entry when its read fails.
reconcileResponseClearing(repoId, data) ==
  /\ mounted
  /\ UNCHANGED viewVars
  /\ reconciles[repoId] > 0
  /\ reconciles' = [reconciles EXCEPT ![repoId] = @ - 1]
  /\ prefetched' = IF data # None THEN reconcile(prefetched, repoId, data[1])
                                  ELSE Put(prefetched, repoId, EmptyEntry)
  /\ UNCHANGED <<status, repos, indexingRepoId, deletingRepoId, listRequest,
                 summaryPending, filesPending, streams, deletes, rereads>>
  /\ IF data # None
       THEN propsSync(repoId, {"counts", "files"})
       ELSE UNCHANGED dropdowns

\* The reconcile read of a done listener settles.
reconcileResponse(repoId, data) ==
  /\ mounted
  /\ UNCHANGED viewVars
  /\ reconciles[repoId] > 0
  /\ reconciles' = [reconciles EXCEPT ![repoId] = @ - 1]
  /\ prefetched' = IF data # None THEN reconcile(prefetched, repoId, data[1])
                                  ELSE prefetched
  /\ UNCHANGED <<status, repos, indexingRepoId, deletingRepoId, listRequest,
                 summaryPending, filesPending, streams, deletes, rereads>>
  /\ IF data # None
       THEN propsSync(repoId, {"counts", "files"})
       ELSE UNCHANGED dropdowns

\* ------------------------------------------------------ handleUnindex (Reset)

InFlightDeletes(repoId) == deletes[repoId][TRUE] + deletes[repoId][FALSE]

\* A handleUnindex that does not wait for the confirmation.
handleUnindexUnasked(repoId, confirmed) ==
  IF isIndexing(repoId)
    THEN UNCHANGED <<status, repos, prefetched, indexingRepoId, deletingRepoId,
                     listRequest, summaryPending, filesPending, streams,
                     reconciles, deletes, rereads>>
    ELSE /\ deletingRepoId' = repoId
         /\ deletes' = [deletes EXCEPT
                          ![repoId][Get(prefetched, repoId).counts # None] = @ + 1]
         /\ UNCHANGED <<status, repos, prefetched, indexingRepoId, listRequest,
                        summaryPending, filesPending, streams, reconciles, rereads>>

\* handleUnindex up to its await; confirmed is the answer of window.confirm.
\* The delete request remembers the render it was issued from: whether that
\* render's prefetched[repoId] had counts.
handleUnindex(repoId, confirmed) ==
  IF isIndexing(repoId) \/ ~confirmed
    THEN UNCHANGED <<status, repos, prefetched, indexingRepoId, deletingRepoId,
                     listRequest, summaryPending, filesPending, streams,
                     reconciles, deletes, rereads>>
    ELSE /\ deletingRepoId' = repoId
         /\ deletes' = [deletes EXCEPT
                          ![repoId][Get(prefetched, repoId).counts # None] = @ + 1]
         /\ UNCHANGED <<status, repos, prefetched, indexingRepoId, listRequest,
                        summaryPending, filesPending, streams, reconciles, rereads>>

\* A click on "Reset": a disabled button runs no handler.
clickReset(repoId, confirmed) ==
  /\ mounted
  /\ UNCHANGED viewVars
  /\ Rendered(repoId)
  /\ Unsettled < MaxInFlight
  /\ IF buttonsDisabled(repoId)
       THEN UNCHANGED <<status, repos, prefetched, indexingRepoId, deletingRepoId,
                        listRequest, summaryPending, filesPending, streams,
                        reconciles, deletes, rereads>>
       ELSE handleUnindex(repoId, confirmed)
  /\ UNCHANGED dropdowns

\* A handleUnindex that applies the optimistic update before it looks at the
\* answer of the delete request.
deleteResponseUnchecked(repoId, hadCounts, outcome) ==
  /\ mounted
  /\ UNCHANGED viewVars
  /\ deletes[repoId][hadCounts] > 0
  /\ deletes' = [deletes EXCEPT ![repoId][hadCounts] = @ - 1]
  /\ deletingRepoId' = Null
  /\ prefetched' = unindexed(prefetched, repoId)
  /\ rereads' = IF outcome = "ok" /\ ~hadCounts
                  THEN [rereads EXCEPT ![repoId] = @ + 1]
                  ELSE rereads
  /\ UNCHANGED <<status, repos, indexingRepoId, listRequest, summaryPending,
                 filesPending, streams, reconciles>>
  /\ propsSync(repoId, {"counts", "files"})

\* A handleUnindex whose finally releases both markers.
deleteResponseReleasingAll(repoId, hadCounts, outcome) ==
  /\ mounted
  /\ UNCHANGED viewVars
  /\ deletes[repoId][hadCounts] > 0
  /\ deletes' = [deletes EXCEPT ![repoId][hadCounts] = @ - 1]
  /\ deletingRepoId' = Null
  /\ indexingRepoId' = Null
  /\ IF outcome = "ok"
       THEN /\ prefetched' = unindexed(prefetched, repoId)
            /\ rereads' = IF hadCounts THEN rereads
                                       ELSE [rereads EXCEPT ![repoId] = @ + 1]
       ELSE UNCHANGED <<prefetched, rereads>>
  /\ UNCHANGED <<status, repos, listRequest, summaryPending,
                 filesPending, streams, reconciles>>
  /\ IF outcome = "ok"
       THEN propsSync(repoId, {"counts", "files"})
       ELSE UNCHANGED dropdowns

\* handleUnindex after its await: the delete answer, the optimistic update,
\* the summary re-read when the issuing render had no counts, and finally.
deleteResponse(repoId, hadCounts, outcome) ==
  /\ mounted
  /\ UNCHANGED viewVars
  /\ deletes[repoId][hadCounts] > 0
  /\ deletes' = [deletes EXCEPT ![repoId][hadCounts] = @ - 1]
  /\ deletingRepoId' = Null
  /\ IF outcome = "ok"
       THEN /\ prefetched' = unindexed(prefetched, repoId)
            /\ rereads' = IF hadCounts THEN rereads
                                       ELSE [rereads EXCEPT ![repoId] = @ + 1]
       ELSE UNCHANGED <<prefetched, rereads>>
  /\ UNCHANGED <<status, repos, indexingRepoId, listRequest, summaryPending,
                 filesPending, streams, reconciles>>
  /\ IF outcome = "ok"
       THEN propsSync(repoId, {"counts", "files"})
       ELSE UNCHANGED dropdowns

\* A summary re-read that fills in counts only where none are known.
rereadResponseIfAbsent(repoId, data) ==
  /\ mounted
  /\ UNCHANGED viewVars
  /\ rereads[repoId] > 0
  /\ rereads' = [rereads EXCEPT ![repoId] = @ - 1]
  /\ prefetched' = IF data # None /\ Get(prefetched, repoId).counts = None
                     THEN mergeCounts(prefetched, repoId, data[1])
                     ELSE prefetched
  /\ UNCHANGED <<status, repos, indexingRepoId, deletingRepoId, listRequest,
                 summaryPending, filesPending, streams, reconciles, deletes>>
  /\ IF data # None /\ Get(prefetched, repoId).counts = None
       THEN propsSync(repoId, {"counts"})
       ELSE UNCHANGED dropdowns

\* The summary re-read of handleUnindex settles.
rereadResponse(repoId, data) ==
  /\ mounted
  /\ UNCHANGED viewVars
  /\ rereads[repoId] > 0
  /\ rereads' = [rereads EXCEPT ![repoId] = @ - 1]
  /\ prefetched' = IF data # None THEN mergeCounts(prefetched, repoId, data[1])
                                  ELSE prefetched
  /\ UNCHANGED <<status, repos, indexingRepoId, deletingRepoId, listRequest,
                 summaryPending, filesPending, streams, reconciles, deletes>>
  /\ IF data # None
       THEN propsSync(repoId, {"counts"})
       ELSE UNCHANGED dropdowns

\* ----------------------------------------------------- refreshAll and unmount

CyclesInFlight ==
  LET Count[S \in SUBSET (SUBSET Repos \ {{}})] ==
        IF S = {} THEN 0
        ELSE LET P == CHOOSE P \in S : TRUE IN cycles[P] + Count[S \ {P}]
  IN  Count[SUBSET Repos \ {{}}]

\* refreshAll up to its await: globRefreshing is the value of the flag in the
\* render the called function belongs to, and repos that render's list.
refreshAll(globRefreshingSeen) ==
  LET asked == {repos[i] : i \in DOMAIN repos} IN
  IF globRefreshingSeen
    THEN UNCHANGED vars
    ELSE /\ globRefreshing' = (asked # {})
         /\ cycles' = IF asked # {} THEN [cycles EXCEPT ![asked] = @ + 1] ELSE cycles
         /\ UNCHANGED <<status, repos, prefetched, indexingRepoId, deletingRepoId,
                        listRequest, summaryPending, filesPending, streams,
                        reconciles, deletes, rereads, autoRefresher, mounted,
                        dropdowns>>

\* A click on "Refresh": the button is rendered while connected and is
\* disabled while globRefreshing; its handler belongs to the current render.
clickRefresh ==
  /\ mounted
  /\ status = "connected"
  /\ CyclesInFlight < MaxCycles
  /\ IF globRefreshing THEN UNCHANGED vars ELSE refreshAll(globRefreshing)

\* The interval fires, which it does for as long as it is set. Its callback
\* calls the refreshAll of the render in which the effect ran (the one that
\* turned status to connected), and that render's globRefreshing is false.
tick ==
  /\ autoRefresher
  /\ CyclesInFlight < MaxCycles
  /\ refreshAll(FALSE)

\* A refreshAll without try/finally: a cycle whose last request fails never
\* clears the flag.
refreshResponseNoFinally(pending, repoId, data) ==
  /\ mounted
  /\ cycles[pending] > 0
  /\ repoId \in pending
  /\ prefetched' = IF data # None THEN mergeCounts(prefetched, repoId, data[1])
                                  ELSE prefetched
  /\ IF pending = {repoId}
       THEN /\ cycles' = [cycles EXCEPT ![pending] = @ - 1]
            /\ globRefreshing' = IF data # None THEN FALSE ELSE globRefreshing
       ELSE /\ cycles' = [cycles EXCEPT ![pending] = @ - 1,
                                        ![pending \ {repoId}] = @ + 1]
            /\ UNCHANGED globRefreshing
  /\ UNCHANGED <<status, repos, indexingRepoId, deletingRepoId, listRequest,
                 summaryPending, filesPending, streams, reconciles, deletes,
                 rereads, autoRefresher, mounted>>
  /\ IF data # None
       THEN propsSync(repoId, {"counts"})
       ELSE UNCHANGED dropdowns

\* One summary request of a refresh cycle settles; pending is the set of the
\* cycle's unanswered repositories. The cycle's finally runs after the last.
refreshResponse(pending, repoId, data) ==
  /\ mounted
  /\ cycles[pending] > 0
  /\ repoId \in pending
  /\ prefetched' = IF data # None THEN mergeCounts(prefetched, repoId, data[1])
                                  ELSE prefetched
  /\ IF pending = {repoId}
       THEN /\ cycles' = [cycles EXCEPT ![pending] = @ - 1]
            /\ globRefreshing' = FALSE
       ELSE /\ cycles' = [cycles EXCEPT ![pending] = @ - 1,
                                        ![pending \ {repoId}] = @ + 1]
            /\ UNCHANGED globRefreshing
  /\ UNCHANGED <<status, repos, indexingRepoId, deletingRepoId, listRequest,
                 summaryPending, filesPending, streams, reconciles, deletes,
                 rereads, autoRefresher, mounted>>
  /\ IF data # None
       THEN propsSync(repoId, {"counts"})
       ELSE UNCHANGED dropdowns

\* An unmount whose cleanup leaves the interval set.
unmountKeepingTimer ==
  /\ mounted
  /\ mounted' = FALSE
  /\ UNCHANGED <<status, repos, prefetched, indexingRepoId, deletingRepoId,
                 listRequest, summaryPending, filesPending, streams, reconciles,
                 deletes, rereads, globRefreshing, cycles, autoRefresher>>
  /\ UNCHANGED dropdowns

\* The component unmounts: the cleanup of the auto-refresh effect clears the
\* interval. No other cleanup exists: open EventSources and requests in
\* flight are left as they are.
unmount ==
  /\ mounted
  /\ mounted' = FALSE
  /\ autoRefresher' = FALSE
  /\ UNCHANGED <<status, repos, prefetched, indexingRepoId, deletingRepoId,
                 listRequest, summaryPending, filesPending, streams, reconciles,
                 deletes, rereads, globRefreshing, cycles>>
  /\ UNCHANGED dropdowns

\* No cleanup closes an EventSource (the only effect cleanup is the
\* clearInterval above), so a stream outlives the unmounted view. Its
\* listeners still run; their state updates are dropped. A file event then
\* changes nothing; a "done" event closes the stream and sends the reconcile
\* read.
detachedDoneEvent(repoId) ==
  /\ ~mounted
  /\ streams[repoId] > 0
  /\ streams' = [streams EXCEPT ![repoId] = @ - 1]
  /\ reconciles' = [reconciles EXCEPT ![repoId] = @ + 1]
  /\ UNCHANGED <<status, repos, prefetched, indexingRepoId, deletingRepoId,
                 listRequest, summaryPending, filesPending, deletes, rereads,
                 globRefreshing, cycles, autoRefresher, mounted>>
  /\ UNCHANGED dropdowns

\* onerror of a stream that outlived the view: close.
detachedErrorEvent(repoId) ==
  /\ ~mounted
  /\ streams[repoId] > 0
  /\ streams' = [streams EXCEPT ![repoId] = @ - 1]
  /\ UNCHANGED <<status, repos, prefetched, indexingRepoId, deletingRepoId,
                 listRequest, summaryPending, filesPending, reconciles, deletes,
                 rereads, globRefreshing, cycles, autoRefresher, mounted>>
  /\ UNCHANGED dropdowns

\* The reconcile read settles after the unmount: its merge is dropped.
detachedReconcileResponse(repoId) ==
  /\ ~mounted
  /\ reconciles[repoId] > 0
  /\ reconciles' = [reconciles EXCEPT ![repoId] = @ - 1]
  /\ UNCHANGED <<status, repos, prefetched, indexingRepoId, deletingRepoId,
                 listRequest, summaryPending, filesPending, streams, deletes,
                 rereads, globRefreshing, cycles, autoRefresher, mounted>>
  /\ UNCHANGED dropdowns

\* ------------------------------------------------------- RepoFilesDropdown

\* A click on the header of the dropdown: setOpen((v) => !v). The effect on
\* [open] of the render that follows calls load when the panel has just been
\* opened with no file list and no load running; load runs up to its await,
\* in the closure of that render (whose countsProp it keeps).
clickToggle(repoId) ==
  /\ mounted
  /\ Rendered(repoId)
  /\ repoId \in DOMAIN dropdowns
  /\ LET d == dropdowns[repoId]
         loads == ~d.open /\ d.files = None /\ ~d.loading
     IN  dropdowns' =
           [dropdowns EXCEPT
              ![repoId] = [d EXCEPT
                             !.open = ~d.open,
                             !.loading = loads \/ d.loading,
                             !.countsProp = IF loads
                                              THEN Get(prefetched, repoId).counts # None
                                              ELSE d.countsProp]]
  /\ UNCHANGED <<status, repos, prefetched, indexingRepoId, deletingRepoId,
                 listRequest, summaryPending, filesPending, streams, reconciles,
                 deletes, rereads, globRefreshing, cycles, autoRefresher, mounted>>

\* load after its await: data is the parsed body of an OK answer, or nothing
\* (a non-OK answer or a rejected fetch, which set the error text only).
loadResponse(repoId, data) ==
  /\ mounted
  /\ repoId \in DOMAIN dropdowns
  /\ dropdowns[repoId].loading
  /\ dropdowns' =
       [dropdowns EXCEPT
          ![repoId] = [@ EXCEPT
                         !.loading = FALSE,
                         !.countsProp = FALSE,
                         !.files = IF data # None THEN data ELSE @,
                         !.counts = IF data # None /\ ~dropdowns[repoId].countsProp
                                      THEN Some([total |-> Len(data[1]),
                                                 indexed |-> nIdx(data[1])])
                                      ELSE @]]
  /\ UNCHANGED <<status, repos, prefetched, indexingRepoId, deletingRepoId,
                 listRequest, summaryPending, filesPending, streams, reconciles,
                 deletes, rereads, globRefreshing, cycles, autoRefresher, mounted>>

\* ------------------------------------------------------------ specification

Next ==
  \/ loadRepos
  \/ \E outcome \in Outcomes : listResponse(outcome)
  \/ \E repoId \in Repos : \E data \in SummaryAnswers(repoId) :
       summaryResponse(repoId, data)
  \/ \E repoId \in Repos : \E data \in FilesAnswers(repoId) :
       filesResponse(repoId, data)
  \/ \E repoId \in Repos : clickIndexNow(repoId)
  \/ \E repoId \in Repos : \E path \in EventPaths(repoId), ok \in BOOLEAN :
       fileEvent(repoId, path, ok)
  \/ \E repoId \in Repos : doneEvent(repoId)
  \/ \E repoId \in Repos : errorEvent(repoId)
  \/ \E repoId \in Repos : \E data \in FilesAnswers(repoId) :
       reconcileResponse(repoId, data)
  \/ \E repoId \in Repos, confirmed \in BOOLEAN : clickReset(repoId, confirmed)
  \/ \E repoId \in Repos, hadCounts \in BOOLEAN, outcome \in Outcomes :
       deleteResponse(repoId, hadCounts, outcome)
  \/ \E repoId \in Repos : \E data \in SummaryAnswers(repoId) :
       rereadResponse(repoId, data)

Spec == Init /\ [][Next]_vars

\* The load, the refresh (button and interval) and the unmount, with no
\* stream and no reset.
NextRefresh ==
  \/ loadRepos
  \/ \E outcome \in Outcomes : listResponse(outcome)
  \/ \E repoId \in Repos : \E data \in SummaryAnswers(repoId) :
       summaryResponse(repoId, data)
  \/ \E repoId \in Repos : \E data \in FilesAnswers(repoId) :
       filesResponse(repoId, data)
  \/ clickRefresh
  \/ tick
  \/ \E pending \in SUBSET Repos \ {{}} : \E repoId \in pending :
       \E data \in SummaryAnswers(repoId) : refreshResponse(pending, repoId, data)
  \/ unmount

SpecRefresh == Init /\ [][NextRefresh]_vars

\* The same, with every summary request of a refresh cycle settled in the
\* end (answered or failed) for as long as the view is mounted.
SpecRefreshSettled ==
  /\ Init
  /\ [][NextRefresh]_vars
  /\ \A pending \in SUBSET Repos \ {{}} : \A repoId \in pending :
       WF_vars(\E data \in SummaryAnswers(repoId) :
                 refreshResponse(pending, repoId, data))

\* The load, the live indexing streams and the unmount, with no reset and no
\* refresh.
NextTeardown ==
  \/ loadRepos
  \/ \E outcome \in Outcomes : listResponse(outcome)
  \/ \E repoId \in Repos : \E data \in SummaryAnswers(repoId) :
       summaryResponse(repoId, data)
  \/ \E repoId \in Repos : \E data \in FilesAnswers(repoId) :
       filesResponse(repoId, data)
  \/ \E repoId \in Repos : clickIndexNow(repoId)
  \/ \E repoId \in Repos : \E path \in EventPaths(repoId), ok \in BOOLEAN :
       fileEvent(repoId, path, ok)
  \/ \E repoId \in Repos : doneEvent(repoId)
  \/ \E repoId \in Repos : errorEvent(repoId)
  \/ \E repoId \in Repos : \E data \in FilesAnswers(repoId) :
       reconcileResponse(repoId, data)
  \/ unmount
  \/ \E repoId \in Repos : detachedDoneEvent(repoId)
  \/ \E repoId \in Repos : detachedErrorEvent(repoId)
  \/ \E repoId \in Repos : detachedReconcileResponse(repoId)

SpecTeardown == Init /\ [][NextTeardown]_vars

\* One indexing run per view, started before any answer of the bulk load has
\* arrived: the click on Index now while nothing is cached and nothing runs.
firstIndexNow(repoId) ==
  /\ DOMAIN prefetched = {}
  /\ \A r \in Repos : streams[r] = 0 /\ reconciles[r] = 0
  /\ clickIndexNow(repoId)

\* What a read sent by the bulk load can answer when one indexing run takes
\* place: the server's state before the run (the server handled the read
\* before it indexed) or after it.
BulkSummaries(repoId) ==
  {Some(SummaryOf(FilesBeforeIndexing(repoId))),
   Some(SummaryOf(FilesAfterIndexing(repoId)))}

BulkFiles(repoId) ==
  {Some(FilesBeforeIndexing(repoId)), Some(FilesAfterIndexing(repoId))}

\* The load and one indexing run that ends with "done", every read answered
\* successfully: a bulk read with the server's state before or after the run,
\* the reconcile read (sent after "done") with the state after it. The file
\* events of the stream are arbitrary (dropped, repeated, in any order).
NextConverge ==
  \/ loadRepos
  \/ \E outcome \in Outcomes : listResponse(outcome)
  \/ \E repoId \in Repos : \E data \in BulkSummaries(repoId) :
       summaryResponse(repoId, data)
  \/ \E repoId \in Repos : \E data \in BulkFiles(repoId) :
       filesResponse(repoId, data)
  \/ \E repoId \in Repos : firstIndexNow(repoId)
  \/ \E repoId \in Repos : \E path \in EventPaths(repoId), ok \in BOOLEAN :
       fileEvent(repoId, path, ok)
  \/ \E repoId \in Repos : doneEvent(repoId)
  \/ \E repoId \in Repos :
       reconcileResponse(repoId, Some(FilesAfterIndexing(repoId)))

\* Every read in flight is answered and every open stream delivers "done".
SpecConverge ==
  /\ Init
  /\ [][NextConverge]_vars
  /\ WF_vars(loadRepos)
  /\ WF_vars(\E outcome \in Outcomes : listResponse(outcome))
  /\ \A repoId \in Repos :
       /\ WF_vars(\E data \in BulkSummaries(repoId) : summaryResponse(repoId, data))
       /\ WF_vars(\E data \in BulkFiles(repoId) : filesResponse(repoId, data))
       /\ WF_vars(doneEvent(repoId))
       /\ WF_vars(reconcileResponse(repoId, Some(FilesAfterIndexing(repoId))))

\* The answers of the list endpoint where the length of the list matters:
\* every list of up to MaxRepos repositories, in every order.
RepoIds == 1..MaxRepos

ListAnswers ==
  {list \in UNION {[1..n -> RepoIds] : n \in 0..MaxRepos} :
     \A i, j \in DOMAIN list : i # j => list[i] # list[j]}

\* The load alone, for every list the endpoint can answer with, each read of
\* the two waves answered successfully.
NextLoad ==
  \/ loadRepos
  \/ \E list \in ListAnswers, outcome \in Outcomes : listResponseOf(list, outcome)
  \/ \E repoId \in RepoIds : \E data \in BulkSummaries(repoId) :
       summaryResponse(repoId, data)
  \/ \E repoId \in RepoIds : \E data \in BulkFiles(repoId) :
       filesResponse(repoId, data)

SpecLoad == Init /\ [][NextLoad]_vars

\* The load and the live indexing streams. Every request the view sends is
\* answered; what a stream delivers, and whether it ever delivers anything,
\* is up to the server: nothing in handleIndexLive ends a stream by itself.
NextStalled ==
  \/ loadRepos
  \/ \E outcome \in Outcomes : listResponse(outcome)
  \/ \E repoId \in Repos : \E data \in SummaryAnswers(repoId) :
       summaryResponse(repoId, data)
  \/ \E repoId \in Repos : \E data \in FilesAnswers(repoId) :
       filesResponse(repoId, data)
  \/ \E repoId \in Repos : clickIndexNow(repoId)
  \/ \E repoId \in Repos : \E path \in EventPaths(repoId), ok \in BOOLEAN :
       fileEvent(repoId, path, ok)
  \/ \E repoId \in Repos : doneEvent(repoId)
  \/ \E repoId \in Repos : errorEvent(repoId)
  \/ \E repoId \in Repos : \E data \in FilesAnswers(repoId) :
       reconcileResponse(repoId, data)

SpecStalled ==
  /\ Init
  /\ [][NextStalled]_vars
  /\ WF_vars(loadRepos)
  /\ WF_vars(\E outcome \in Outcomes : listResponse(outcome))
  /\ \A repoId \in Repos :
       /\ WF_vars(\E data \in SummaryAnswers(repoId) : summaryResponse(repoId, data))
       /\ WF_vars(\E data \in FilesAnswers(repoId) : filesResponse(repoId, data))
       /\ WF_vars(\E data \in FilesAnswers(repoId) : reconcileResponse(repoId, data))

\* The load and the live indexing streams, with the "file" messages as the
\* texts that arrive; every read is answered with the server's state before
\* or after an indexing run.
NextPayload ==
  \/ loadRepos
  \/ \E outcome \in Outcomes : listResponse(outcome)
  \/ \E repoId \in Repos : \E data \in BulkSummaries(repoId) :
       summaryResponse(repoId, data)
  \/ \E repoId \in Repos : \E data \in BulkFiles(repoId) :
       filesResponse(repoId, data)
  \/ \E repoId \in Repos : clickIndexNow(repoId)
  \/ \E repoId \in Repos : \E text \in Payloads(repoId) : fileMessage(repoId, text)
  \/ \E repoId \in Repos : doneEvent(repoId)
  \/ \E repoId \in Repos : errorEvent(repoId)
  \/ \E repoId \in Repos : \E data \in BulkFiles(repoId) :
       reconcileResponse(repoId, data)

SpecPayload == Init /\ [][NextPayload]_vars

\* The cache writes addressed to a repository: a summary merge, a detail
\* merge, an ok file event, the effect of a Reset, a reconcile merge.
CacheWritesOf ==
  [repoId \in Repos |->
  LET W(kind, counts, files, path) ==
        [kind |-> kind, counts |-> counts, files |-> files, path |-> path]
      NoCounts == [total |-> 0, indexed |-> 0]
  IN  {W("summary", c, <<>>, "") : c \in CountsResponses(repoId)}
        \cup {W("detail", NoCounts, f, "") : f \in FileLists(repoId)}
        \cup {W("file", NoCounts, <<>>, p) : p \in EventPaths(repoId)}
        \cup {W("reset", NoCounts, <<>>, "")}
        \cup {W("reconcile", NoCounts, f, "") : f \in FileLists(repoId)}]

CacheWrites(repoId) == CacheWritesOf[repoId]

Write(prev, repoId, w) ==
  CASE w.kind = "summary" -> mergeCounts(prev, repoId, w.counts)
    [] w.kind = "detail" -> mergeFiles(prev, repoId, w.files)
    [] w.kind = "file" -> markFileIndexed(bumpCounts(prev, repoId, 1), repoId, w.path)
    [] w.kind = "reset" -> unindexed(prev, repoId)
    [] w.kind = "reconcile" -> reconcile(prev, repoId, w.files)

\* One updater of setPrefetched runs on the cache. (File events are followed
\* as far above the known total as in fileEvent.)
cacheWrite(repoId, w) ==
  /\ (w.kind = "file" /\ Get(prefetched, repoId).counts # None)
       => Get(prefetched, repoId).counts[1].indexed
            < Get(prefetched, repoId).counts[1].total + MaxExcess
  /\ prefetched' = Write(prefetched, repoId, w)
  /\ UNCHANGED <<status, repos, indexingRepoId, deletingRepoId, listRequest,
                 summaryPending, filesPending, streams, reconciles, deletes,
                 rereads, globRefreshing, cycles, autoRefresher, mounted>>
  /\ propsSync(repoId,
               IF w.kind = "summary" THEN {"counts"}
               ELSE IF w.kind = "detail" /\ Get(prefetched, repoId).counts # None
                      THEN {"files"}
                      ELSE {"counts", "files"})

\* The cache alone, under every sequence of its writes.
NextCache == \E repoId \in Repos : \E w \in CacheWrites(repoId) : cacheWrite(repoId, w)

SpecCache == Init /\ [][NextCache]_vars

\* The load and the dropdowns: every interleaving of the answers of the bulk
\* load with the clicks on the dropdowns' headers and the answers to their
\* own loads.
NextDropdown ==
  \/ loadRepos
  \/ \E outcome \in Outcomes : listResponse(outcome)
  \/ \E repoId \in Repos : \E data \in SummaryAnswers(repoId) :
       summaryResponse(repoId, data)
  \/ \E repoId \in Repos : \E data \in FilesAnswers(repoId) :
       filesResponse(repoId, data)
  \/ \E repoId \in Repos : clickToggle(repoId)
  \/ \E repoId \in Repos : \E data \in FilesAnswers(repoId) :
       loadResponse(repoId, data)

SpecDropdown == Init /\ [][NextDropdown]_vars

\* A list whose fourth repository, the one that has files, is beyond the
\* first PREFETCH_FILES_FOR: the bulk load sends no detail read for it.
ListOfFour == <<2, 3, 4, 1>>

Fourth == ListOfFour[4]

\* The load of that list, and the dropdown and the resets of its fourth
\* repository.
NextDropdownReset ==
  \/ loadRepos
  \/ \E outcome \in Outcomes : listResponseOf(ListOfFour, outcome)
  \/ \E repoId \in RepoIds : \E data \in BulkSummaries(repoId) :
       summaryResponse(repoId, data)
  \/ \E repoId \in RepoIds : \E data \in BulkFiles(repoId) :
       filesResponse(repoId, data)
  \/ clickToggle(Fourth)
  \/ \E data \in FilesAnswers(Fourth) : loadResponse(Fourth, data)
  \/ \E confirmed \in BOOLEAN : clickReset(Fourth, confirmed)
  \/ \E hadCounts \in BOOLEAN, outcome \in Outcomes :
       deleteResponse(Fourth, hadCounts, outcome)
  \/ \E data \in SummaryAnswers(Fourth) : rereadResponse(Fourth, data)

SpecDropdownReset == Init /\ [][NextDropdownReset]_vars

\* --------------------------------------------------------------- the claims

\* The entry of a repository as the render reads it (prefetched[r.id]?.counts).
Entry(repoId) == Get(prefetched, repoId)

HasCounts(repoId) == Entry(repoId).counts # None

HasFiles(repoId) == Entry(repoId).files # None

\* C1: in every reachable state every entry that has counters satisfies
\* 0 <= indexed <= total (the server's answers all do).
C1_CountersInRange ==
  \A r \in Repos :
    HasCounts(r) =>
      /\ 0 <= Entry(r).counts[1].indexed
      /\ Entry(r).counts[1].indexed <= Entry(r).counts[1].total

\* C2: no repository has an open index stream and a delete request in flight
\* at the same time.
C2_NoStreamWithDelete ==
  \A r \in Repos : ~(streams[r] > 0 /\ InFlightDeletes(r) > 0)

\* C3: at most one index stream per repository is open at any time.
C3_OneStreamPerRepo == \A r \in Repos : streams[r] <= 1

\* C4: a repository stays marked as indexing for as long as its own stream
\* is open, whatever happens on the other repositories.
C4_OpenStreamStaysMarked == \A r \in Repos : streams[r] > 0 => isIndexing(r)

\* C5: at most one delete request per repository is in flight, and the
\* repository stays marked as resetting until its own delete request completes.
C5_OneDeleteStaysMarked ==
  \A r \in Repos :
    /\ InFlightDeletes(r) <= 1
    /\ InFlightDeletes(r) > 0 => isDeleting(r)

\* The file list with every path kept in place and every status not-indexed.
AllNotIndexed(files) ==
  [i \in DOMAIN files |-> [path |-> files[i].path, status |-> "not-indexed"]]

\* C6: when the delete request of Reset(r) succeeds, that one step sets
\* counts.indexed to 0 and keeps counts.total (when counts were known), and
\* turns every file of a loaded list to not-indexed, same paths, same order.
C6_ResetSuccessEffect ==
  [][\A r \in Repos, h \in BOOLEAN :
       deleteResponse(r, h, "ok") =>
         /\ r \in DOMAIN prefetched'
         /\ HasCounts(r) =>
              prefetched'[r].counts
                = Some([total |-> Entry(r).counts[1].total, indexed |-> 0])
         /\ HasFiles(r) =>
              prefetched'[r].files = Some(AllNotIndexed(Entry(r).files[1]))]_vars

\* A successful delete has been applied to an entry that has counts and a
\* two-file list (the summary re-read it issued is still in flight).
C6_Witness ==
  \E r \in Repos :
    /\ rereads[r] > 0
    /\ InFlightDeletes(r) = 0
    /\ HasCounts(r) /\ Entry(r).counts[1].total = 2 /\ Entry(r).counts[1].indexed = 0
    /\ HasFiles(r) /\ Len(Entry(r).files[1]) = 2 /\ nIdx(Entry(r).files[1]) = 0

\* C7: when the delete request of Reset(r) fails (non-OK status or rejected
\* fetch), that step changes no cache entry, issues no summary re-read and
\* releases the reset marker.
C7_ResetFailureFailsClosed ==
  [][\A r \in Repos, h \in BOOLEAN, outcome \in {"notok", "rejected"} :
       deleteResponse(r, h, outcome) =>
         /\ prefetched' = prefetched
         /\ rereads' = rereads
         /\ summaryPending' = summaryPending
         /\ deletingRepoId' = Null
         /\ ~isDeleting(r)']_vars

\* A delete request is in flight for a repository whose entry shows indexed
\* files: the state a failing answer has to leave as it is.
C7_Witness ==
  \E r \in Repos :
    /\ InFlightDeletes(r) > 0
    /\ isDeleting(r)
    /\ HasCounts(r) /\ Entry(r).counts[1].indexed > 0
    /\ HasFiles(r) /\ nIdx(Entry(r).files[1]) > 0

\* C8: a Reset whose confirmation is declined issues no delete request,
\* sets no reset marker and changes no cache entry.
C8_DeclinedResetIsNoOp ==
  [][\A r \in Repos :
       clickReset(r, FALSE) =>
         UNCHANGED <<deletes, deletingRepoId, prefetched, rereads>>]_vars

\* The Reset button of a repository with indexed files is enabled: the
\* confirmation can be asked and declined here.
C8_Witness ==
  \E r \in Repos :
    /\ Rendered(r)
    /\ ~buttonsDisabled(r)
    /\ Unsettled < MaxInFlight
    /\ HasCounts(r) /\ Entry(r).counts[1].indexed > 0
    /\ HasFiles(r) /\ nIdx(Entry(r).files[1]) > 0

\* C9: once the delete request of an accepted Reset(r) has completed, with
\* whatever outcome, r's reset marker is released and StartIndex(r) and
\* Reset(r) are accepted again (the buttons of r are enabled).
C9_AcceptedAgainAfterReset ==
  [][\A r \in Repos, h \in BOOLEAN, outcome \in Outcomes :
       deleteResponse(r, h, outcome) =>
         /\ deletingRepoId' # r
         /\ indexingRepoId' # r]_vars

\* The counts a file event with ok=true leaves: indexed + 1, total kept, and
\* {total: 0, indexed: 0} taken for counts that are not known yet.
CountsAfterOk(repoId) ==
  IF HasCounts(repoId)
    THEN [total |-> Entry(repoId).counts[1].total,
          indexed |-> Entry(repoId).counts[1].indexed + 1]
    ELSE [total |-> 0, indexed |-> 1]

\* C10: a file event with ok=true adds 1 to the indexed counter and marks
\* the named file indexed in a loaded list (the other files, the paths and
\* the order are kept); a file event with ok=false changes nothing; and a
\* done-reconcile that returns the values the entry holds leaves it unchanged.
C10_FileEventsApplied ==
  [][\A r \in Repos :
       /\ \A p \in EventPaths(r) :
            /\ fileEvent(r, p, TRUE) =>
                 /\ prefetched'[r].counts = Some(CountsAfterOk(r))
                 /\ ~HasFiles(r) => prefetched'[r].files = None
                 /\ HasFiles(r) =>
                      /\ prefetched'[r].files # None
                      /\ DOMAIN prefetched'[r].files[1] = DOMAIN Entry(r).files[1]
                      /\ \A i \in DOMAIN Entry(r).files[1] :
                           /\ prefetched'[r].files[1][i].path = Entry(r).files[1][i].path
                           /\ prefetched'[r].files[1][i].status
                                = IF Entry(r).files[1][i].path = p
                                    THEN "indexed"
                                    ELSE Entry(r).files[1][i].status
            /\ fileEvent(r, p, FALSE) => prefetched' = prefetched
       /\ \A f \in FileLists(r) :
            /\ reconcileResponse(r, Some(f))
            /\ Entry(r) = [counts |-> Some([total |-> Len(f), indexed |-> nIdx(f)]),
                           files |-> Some(f)]
            => prefetched' = prefetched]_vars

\* A stream of a repository with a loaded two-file list is open and its file
\* events have been applied: both files are marked and the counter has been
\* raised past the total the server reported.
C10_Witness ==
  \E r \in Repos :
    /\ streams[r] > 0
    /\ HasFiles(r) /\ Len(Entry(r).files[1]) = 2 /\ nIdx(Entry(r).files[1]) = 2
    /\ HasCounts(r) /\ Entry(r).counts[1].indexed > Entry(r).counts[1].total

\* The files of a loaded list that a file event naming path turns from
\* not-indexed to indexed.
Transitions(repoId, path) ==
  IF HasFiles(repoId)
    THEN Cardinality({i \in DOMAIN Entry(repoId).files[1] :
                        /\ Entry(repoId).files[1][i].path = path
                        /\ Entry(repoId).files[1][i].status = "not-indexed"})
    ELSE 0

\* C11: with the file list loaded, a file event with ok=true raises the
\* indexed counter by exactly the number of files it turns from not-indexed
\* to indexed, so an event for a path that is already indexed adds nothing.
C11_RemarkCountedOnce ==
  [][\A r \in Repos : \A p \in EventPaths(r) :
       fileEvent(r, p, TRUE) /\ HasFiles(r) /\ HasCounts(r) =>
         prefetched'[r].counts[1].indexed
           = Entry(r).counts[1].indexed + Transitions(r, p)]_vars

\* C12: every entry whose file list is present has counts.total equal to the
\* length of the list and counts.indexed equal to the number of indexed files.
C12_DerivedConsistency ==
  \A r \in Repos :
    HasFiles(r) =>
      /\ HasCounts(r)
      /\ Entry(r).counts[1].total = Len(Entry(r).files[1])
      /\ Entry(r).counts[1].indexed = nIdx(Entry(r).files[1])

\* C13: a bulk detail answer for r replaces r's file list by the answer's
\* list; r's counts are derived from that list when r had none and are left
\* as they were otherwise.
C13_DetailMergeKeepsCounts ==
  [][\A r \in Repos : \A f \in FileLists(r) :
       filesResponse(r, Some(f)) =>
         /\ r \in DOMAIN prefetched'
         /\ prefetched'[r].files = Some(f)
         /\ prefetched'[r].counts
              = IF HasCounts(r)
                  THEN Entry(r).counts
                  ELSE Some([total |-> Len(f), indexed |-> nIdx(f)])]_vars

\* The bulk detail answer of a repository has been merged into an entry that
\* had counts: the list shows fewer indexed files than the counts that were kept.
C13_Witness ==
  \E r \in Repos :
    /\ status = "connected"
    /\ r \notin filesPending
    /\ streams[r] = 0 /\ reconciles[r] = 0 /\ InFlightDeletes(r) = 0 /\ rereads[r] = 0
    /\ HasFiles(r) /\ HasCounts(r)
    /\ Entry(r).counts[1].total = Len(Entry(r).files[1])
    /\ nIdx(Entry(r).files[1]) < Entry(r).counts[1].indexed
    /\ Entry(r).counts[1].indexed <= Entry(r).counts[1].total

\* C15: the done event of r's stream closes the channel, releases the index
\* marker and issues the reconcile read without touching the cache; when that
\* read succeeds, r's file list and counts are both overwritten with the
\* values of the answer, whatever the entry held.
C15_DoneReconciles ==
  [][\A r \in Repos :
       /\ doneEvent(r) =>
            /\ streams'[r] = streams[r] - 1
            /\ indexingRepoId' = Null
            /\ ~isIndexing(r)'
            /\ reconciles'[r] = reconciles[r] + 1
            /\ prefetched' = prefetched
       /\ \A f \in FileLists(r) :
            reconcileResponse(r, Some(f)) =>
              /\ r \in DOMAIN prefetched'
              /\ prefetched'[r]
                   = [counts |-> Some([total |-> Len(f), indexed |-> nIdx(f)]),
                      files |-> Some(f)]]_vars

\* The stream of r has ended with done and its reconcile read is in flight,
\* while the entry holds optimistic values the read has to overwrite (a
\* counter raised past the total, beside a loaded list).
C15_Witness ==
  \E r \in Repos :
    /\ streams[r] = 0
    /\ reconciles[r] > 0
    /\ ~isIndexing(r)
    /\ HasFiles(r) /\ HasCounts(r)
    /\ Entry(r).counts[1].indexed > Entry(r).counts[1].total

\* C17: a stream error of r closes the channel and releases the index marker;
\* it changes no cache entry and issues no reconcile read; and a stream is
\* only ever opened by a click on "Index now" of that repository.
C17_ErrorKeepsProgress ==
  [][\A r \in Repos :
       /\ errorEvent(r) =>
            /\ streams'[r] = streams[r] - 1
            /\ indexingRepoId' = Null
            /\ ~isIndexing(r)'
            /\ prefetched' = prefetched
            /\ reconciles' = reconciles
            /\ summaryPending' = summaryPending
            /\ filesPending' = filesPending
       /\ streams'[r] > streams[r] => clickIndexNow(r)]_vars

\* A stream of the first repository has ended with nothing left in flight for
\* it, and the progress of its file events (a counter started from unknown
\* counts) is still in the entry.
C17_Witness ==
  /\ streams[RepoList[1]] = 0
  /\ reconciles[RepoList[1]] = 0
  /\ ~isIndexing(RepoList[1])
  /\ HasCounts(RepoList[1])
  /\ Entry(RepoList[1]).counts[1].total = 0
  /\ Entry(RepoList[1]).counts[1].indexed > 0

C19_ListFailureIsError ==
  [][\A outcome \in {"notok", "rejected"} :
       listResponse(outcome) =>
         /\ status' = "error"
         /\ repos' = <<>>
         /\ summaryPending' = {} /\ filesPending' = {}
         /\ DOMAIN prefetched' = {}
         /\ ~autoRefresher']_vars

\* C19, as the code has it: a non-OK list answer gives status "error" and a
\* rejected list request gives status "idle"; in both cases, at that step and
\* from then on, the list is empty, no summary or detail request is in
\* flight, no cache entry exists, no timer is set and no refresh cycle runs.
C19_ListFailureFailsLoad ==
  [][/\ \A outcome \in {"notok", "rejected"} :
          listResponse(outcome) =>
            status' = IF outcome = "notok" THEN "error" ELSE "idle"
     /\ (listRequest' = "answered" /\ status' # "connected") =>
          /\ status' \in {"error", "idle"}
          /\ repos' = <<>>
          /\ summaryPending' = {} /\ filesPending' = {}
          /\ DOMAIN prefetched' = {}
          /\ ~autoRefresher'
          /\ ~globRefreshing'
          /\ CyclesInFlight' = 0]_vars

\* The list request was rejected: the view is back in the idle state.
C19_Witness == listRequest = "answered" /\ status = "idle" /\ mounted

\* C20: a failing summary or detail request of the bulk load, or a failing
\* summary request of a refresh cycle, changes no cache entry, not the list and
\* not the status, and takes only itself out of the requests in flight; the
\* refresh cycle it belongs to goes on and ends with its last request.
C20_RequestFailureIsLocal ==
  [][\A r \in Repos :
       /\ summaryResponse(r, None) =>
            /\ prefetched' = prefetched /\ repos' = repos /\ status' = status
            /\ summaryPending' = summaryPending \ {r}
            /\ filesPending' = filesPending
            /\ cycles' = cycles /\ globRefreshing' = globRefreshing
       /\ filesResponse(r, None) =>
            /\ prefetched' = prefetched /\ repos' = repos /\ status' = status
            /\ filesPending' = filesPending \ {r}
            /\ summaryPending' = summaryPending
            /\ cycles' = cycles /\ globRefreshing' = globRefreshing
       /\ \A pending \in SUBSET Repos \ {{}} :
            refreshResponse(pending, r, None) =>
              /\ prefetched' = prefetched /\ repos' = repos /\ status' = status
              /\ summaryPending' = summaryPending /\ filesPending' = filesPending
              /\ CyclesInFlight' = CyclesInFlight - (IF pending = {r} THEN 1 ELSE 0)
              /\ pending # {r} => cycles'[pending \ {r}] = cycles[pending \ {r}] + 1
              /\ pending = {r} => ~globRefreshing']_vars

\* Both bulk requests of the first repository have failed (it has no entry)
\* while those of the second were merged, and the view is connected with
\* nothing left in flight.
C20_Witness ==
  /\ status = "connected"
  /\ summaryPending = {} /\ filesPending = {}
  /\ CyclesInFlight = 0 /\ ~globRefreshing
  /\ RepoList[1] \notin DOMAIN prefetched
  /\ HasCounts(RepoList[2]) /\ HasFiles(RepoList[2])

\* C18: closing a stream releases the index lock, and the view's teardown
\* closes every stream: a "done" or error step leaves no repository marked as
\* indexing, and the unmount leaves no stream open and no repository marked,
\* so that no event of a stream can arrive after the view is gone.
C18_ClosedChannelInert ==
  [][/\ \A r \in Repos : (doneEvent(r) \/ errorEvent(r)) => indexingRepoId' = Null
     /\ unmount => /\ \A r \in Repos : streams'[r] = 0
                   /\ indexingRepoId' = Null]_vars

\* C16: once the stream of r has delivered "done" (its reconcile read is in
\* flight), with no further indexing run or reset and every outstanding read
\* answered successfully, r's entry eventually equals the server's state
\* after the run, counters and file list, and stays equal to it.
C16_ConvergesAfterDone ==
  \A r \in Repos :
    (reconciles[r] > 0)
      ~> [](Entry(r) = [counts |-> Some(SummaryOf(FilesAfterIndexing(r))),
                        files |-> Some(FilesAfterIndexing(r))])

\* C21: at most one refresh cycle is in flight at any time, and a tick of the
\* interval that fires while a cycle is in flight starts no cycle (it sends no
\* summary request).
C21_OneCycleAtATime ==
  [][/\ CyclesInFlight' <= 1
     /\ (tick /\ CyclesInFlight > 0) => cycles' = cycles]_vars

\* C22: the Refresh button and the interval run refreshAll under one guard: a
\* click while any cycle is in flight starts no cycle, and while the guard
\* flag is set (a cycle started by a click has not ended) a tick starts none.
C22_ManualSharesGuard ==
  [][/\ (clickRefresh /\ CyclesInFlight > 0) => cycles' = cycles
     /\ (tick /\ globRefreshing) => cycles' = cycles]_vars

WritesCommute ==
  \A r \in Repos : \A q \in Repos \ {r} : \A w \in CacheWrites(r) :
    /\ (q \in DOMAIN Write(prefetched, r, w)) = (q \in DOMAIN prefetched)
    /\ Get(Write(prefetched, r, w), q) = Get(prefetched, q)
    /\ \A v \in CacheWrites(q) :
         Write(Write(prefetched, r, w), q, v) = Write(Write(prefetched, q, v), r, w)

\* C24: every cache write for repository r (summary merge, detail merge,
\* file event, Reset effect, reconcile merge) leaves the entry of every other
\* repository unchanged, and on every cache that sequences of writes can
\* build, two writes addressed to different repositories give the same cache
\* in either order.
C24_WritesAreLocal ==
  /\ []WritesCommute
  /\ [][\A r \in Repos : \A w \in CacheWrites(r) :
          cacheWrite(r, w) =>
            \A q \in Repos \ {r} :
              /\ (q \in DOMAIN prefetched') = (q \in DOMAIN prefetched)
              /\ Get(prefetched', q) = Get(prefetched, q)]_vars

\* Both repositories have an entry with counts and a file list, the first
\* with one file indexed and a counter that has left its total behind.
C24_Witness ==
  /\ \A r \in Repos : HasCounts(r) /\ HasFiles(r)
  /\ nIdx(Entry(RepoList[1]).files[1]) = 1
  /\ Entry(RepoList[1]).counts[1].indexed > Entry(RepoList[1]).counts[1].total

\* C25: while an index stream of repository a (open, or ended with its
\* reconcile read in flight) and a delete request of another repository b are
\* in flight together, every event of a's stream leaves b's entry, the
\* deleting marker and the requests of the Reset as they are and has its
\* usual effect on a (an ok file event adds one, "done" releases the indexing
\* marker, the reconcile answer sets a's entry); and the delete answer leaves
\* a's entry, the indexing marker and the streams as they are, releases the
\* deleting marker and, when it succeeds, sets b's indexed counter to 0 and
\* keeps its total.
C25_StreamAndResetIndependent ==
  [][\A a \in Repos : \A b \in Repos \ {a} :
       ((streams[a] > 0 \/ reconciles[a] > 0) /\ InFlightDeletes(b) > 0) =>
         /\ (\/ \E path \in EventPaths(a), ok \in BOOLEAN : fileEvent(a, path, ok)
             \/ doneEvent(a) \/ errorEvent(a)
             \/ \E data \in FilesAnswers(a) : reconcileResponse(a, data))
              => /\ Get(prefetched', b) = Entry(b)
                 /\ deletingRepoId' = deletingRepoId
                 /\ deletes' = deletes /\ rereads' = rereads
         /\ \A path \in EventPaths(a) :
              fileEvent(a, path, TRUE)
                => Get(prefetched', a).counts = Some(CountsAfterOk(a))
         /\ (doneEvent(a) \/ errorEvent(a)) => indexingRepoId' = Null
         /\ \A f \in FileLists(a) :
              reconcileResponse(a, Some(f))
                => Get(prefetched', a) = [counts |-> Some(SummaryOf(f)),
                                          files |-> Some(f)]
         /\ \A h \in BOOLEAN, outcome \in Outcomes :
              deleteResponse(b, h, outcome)
                => /\ Get(prefetched', a) = Entry(a)
                   /\ indexingRepoId' = indexingRepoId
                   /\ streams' = streams /\ reconciles' = reconciles
                   /\ deletingRepoId' = Null
                   /\ (outcome = "ok" /\ HasCounts(b))
                        => Get(prefetched', b).counts
                             = Some([total |-> Entry(b).counts[1].total,
                                     indexed |-> 0])]_vars

\* A stream of the second repository, whose ok file events have been
\* counted, and a delete request of the first, which has indexed files and
\* counts, are in flight together, each under its own marker.
C25_Witness ==
  /\ streams[RepoList[2]] > 0 /\ indexingRepoId = RepoList[2]
  /\ InFlightDeletes(RepoList[1]) > 0 /\ deletingRepoId = RepoList[1]
  /\ HasCounts(RepoList[2]) /\ Entry(RepoList[2]).counts[1].indexed > 0
  /\ HasCounts(RepoList[1]) /\ Entry(RepoList[1]).counts[1].indexed > 0
  /\ HasFiles(RepoList[1]) /\ nIdx(Entry(RepoList[1]).files[1]) > 0

\* C26: when, after a Reset of r has succeeded, a summary answer
\* {total: T, indexed: 0} for r is merged (the re-read the Reset sent, or a
\* summary of the bulk load that arrives after it), r's counters are exactly
\* {T, 0} afterwards, whatever the entry held, and its file list is kept.
C26_SummaryAfterResetWins ==
  [][\A r \in Repos : \A c \in CountsResponses(r) :
       (c.indexed = 0 /\ (rereadResponse(r, Some(c)) \/ summaryResponse(r, Some(c))))
         => /\ Get(prefetched', r).counts = Some([total |-> c.total, indexed |-> 0])
            /\ Get(prefetched', r).files = Entry(r).files]_vars

\* The re-read of a successful Reset of the first repository is in flight
\* while its entry already holds counters that file events have made up
\* (a total that is not the server's).
C26_Witness ==
  /\ rereads[RepoList[1]] > 0
  /\ HasCounts(RepoList[1])
  /\ Entry(RepoList[1]).counts[1].total # Len(PathsOf(RepoList[1]))
  /\ Entry(RepoList[1]).counts[1].indexed > 0

\* C27: when the delete request of a Reset of r succeeds while r's counters
\* are unknown, that step sends one summary read for r and leaves the
\* counters absent; a successful answer of that read sets the counters to the
\* answer, a failing one leaves the cache as it is; and a Reset that was
\* started with known counters sends no such read.
C27_UnknownCountsAreReread ==
  [][\A r \in Repos :
       /\ \A h \in BOOLEAN :
            (deleteResponse(r, h, "ok") /\ ~HasCounts(r))
              => /\ rereads'[r] = rereads[r] + 1
                 /\ Get(prefetched', r).counts = None
       /\ \A outcome \in Outcomes :
            deleteResponse(r, TRUE, outcome) => rereads' = rereads
       /\ rereadResponse(r, None)
            => prefetched' = prefetched /\ rereads'[r] = rereads[r] - 1
       /\ \A c \in CountsResponses(r) :
            rereadResponse(r, Some(c)) => Get(prefetched', r).counts = Some(c)]_vars

\* A Reset of the first repository has succeeded without known counters:
\* it has left an entry, the counters are still absent and the summary read
\* is in flight.
C27_Witness ==
  /\ rereads[RepoList[1]] > 0
  /\ InFlightDeletes(RepoList[1]) = 0
  /\ RepoList[1] \in DOMAIN prefetched
  /\ ~HasCounts(RepoList[1])

\* C28: when the list request is answered with a list, that step makes the
\* view connected with that list, sends a summary request for every
\* repository of the list and a detail request for the first three of them
\* (for all when there are fewer) and for no other, and merges nothing yet;
\* and the two waves do not wait for each other: every request in flight, of
\* either wave, can be answered next.
C28_BulkLoadRequests ==
  /\ [](/\ \A r \in summaryPending :
            \A data \in BulkSummaries(r) : ENABLED summaryResponse(r, data)
        /\ \A r \in filesPending :
            \A data \in BulkFiles(r) : ENABLED filesResponse(r, data))
  /\ [][\A list \in ListAnswers :
          listResponseOf(list, "ok") =>
            /\ status' = "connected"
            /\ repos' = list
            /\ summaryPending' = {list[i] : i \in 1..Len(list)}
            /\ filesPending' = {list[i] : i \in {j \in 1..Len(list) : j <= 3}}
            /\ prefetched' = prefetched]_vars

\* A list of more than three repositories that is not in the order of the
\* ids has been loaded; the detail answer for its third repository has been
\* merged while every summary request is still in flight, and its fourth
\* repository has no detail request and no entry.
C28_Witness ==
  /\ Len(repos) > 3
  /\ repos[1] > repos[2]
  /\ summaryPending = {repos[i] : i \in DOMAIN repos}
  /\ filesPending = {repos[1], repos[2]}
  /\ HasFiles(repos[3])
  /\ repos[4] \notin DOMAIN prefetched

\* C29: an ok file event for a repository whose file list is not loaded adds
\* 1 to the indexed counter, which stays within [0, total], and leaves the
\* file list absent; an ok file event that names a path a loaded file list
\* does not contain leaves that list as it is.
C29_PartialKnowledge ==
  [][\A r \in Repos : \A path \in EventPaths(r) :
       fileEvent(r, path, TRUE) =>
         /\ ~HasFiles(r) =>
              /\ Get(prefetched', r).counts[1].indexed
                   = (IF HasCounts(r) THEN Entry(r).counts[1].indexed ELSE 0) + 1
              /\ Get(prefetched', r).counts[1].indexed
                   <= Get(prefetched', r).counts[1].total
              /\ Get(prefetched', r).files = None
         /\ (HasFiles(r) /\ \A i \in DOMAIN Entry(r).files[1] :
                               Entry(r).files[1][i].path # path)
              => Get(prefetched', r).files = Entry(r).files]_vars

\* C30: a repository that is marked as indexing is eventually not marked any
\* more, also when its stream never delivers "done" or an error.
C30_LockEventuallyReleased ==
  \A r \in Repos : (indexingRepoId = r) ~> (indexingRepoId # r)

\* The indexed counter the view shows for a repository (0 while unknown) and
\* the paths it shows as indexed (none while no list is loaded).
IndexedIn(prev, repoId) ==
  IF Get(prev, repoId).counts # None THEN Get(prev, repoId).counts[1].indexed ELSE 0

IndexedPathsIn(prev, repoId) ==
  IF Get(prev, repoId).files # None
    THEN {Get(prev, repoId).files[1][i].path :
            i \in {j \in DOMAIN Get(prev, repoId).files[1] :
                     Get(prev, repoId).files[1][j].status = "indexed"}}
    ELSE {}

\* C31: after the delete request of a Reset of r has succeeded (its summary
\* re-read is still in flight), the answer to a read of r that the bulk load
\* sent, which was before any Reset could be clicked, does not raise r's
\* indexed counter and marks no file of r indexed.
C31_NoStaleReadUndoesReset ==
  [][\A r \in Repos :
       rereads[r] > 0 =>
         /\ \A c \in CountsResponses(r) :
              summaryResponse(r, Some(c))
                => IndexedIn(prefetched', r) <= IndexedIn(prefetched, r)
         /\ \A f \in FileLists(r) :
              filesResponse(r, Some(f))
                => /\ IndexedIn(prefetched', r) <= IndexedIn(prefetched, r)
                   /\ IndexedPathsIn(prefetched', r) \subseteq IndexedPathsIn(prefetched, r)]_vars

\* C32: in every state of the mounted view, a repository that is marked as
\* indexing has an open index stream and a repository that is marked as
\* resetting has a delete request in flight.
C32_NoPhantomLock ==
  \A r \in Repos :
    /\ isIndexing(r) => streams[r] > 0
    /\ isDeleting(r) => InFlightDeletes(r) > 0

\* Both markers are set, each for its own repository, while the first
\* repository's counters already show indexed files.
C32_Witness ==
  /\ isIndexing(RepoList[1]) /\ streams[RepoList[1]] > 0
  /\ isDeleting(RepoList[2]) /\ InFlightDeletes(RepoList[2]) > 0
  /\ IndexedIn(prefetched, RepoList[1]) > 0

\* The dropdown of a repository's row, and what its header and its panel
\* show: counts?.indexed, and the paths with the indexed mark.
Dropdown(repoId) == dropdowns[repoId]

\* C33: for every repository whose dropdown has no load of its own in
\* flight, the dropdown's counts equal the counts of the parent's cache entry
\* when that entry has counts, and its file list equals the entry's file list
\* when the entry has one.
C33_DropdownShowsCache ==
  \A r \in DOMAIN dropdowns :
    ~Dropdown(r).loading =>
      /\ HasCounts(r) => Dropdown(r).counts = Entry(r).counts
      /\ HasFiles(r) => Dropdown(r).files = Entry(r).files

\* The dropdown shows a repository as reset: an indexed counter of 0 where
\* it has counts, and no file with the indexed mark where it has a list.
ShowsReset(d) ==
  /\ d.counts # None => d.counts[1].indexed = 0
  /\ d.files # None => nIdx(d.files[1]) = 0

\* C34: once the state after a successful Reset of r has been delivered (by
\* the delete answer when the counts were known, by the answer of the summary
\* re-read otherwise), r's dropdown shows indexed = 0 and no file as indexed,
\* also when it had loaded its file list itself.
C34_DropdownShowsReset ==
  [][\A r \in Repos :
       r \in DOMAIN dropdowns =>
         /\ deleteResponse(r, TRUE, "ok") => ShowsReset(Dropdown(r))'
         /\ \A c \in CountsResponses(r) :
              (c.indexed = 0 /\ rereadResponse(r, Some(c)))
                => ShowsReset(Dropdown(r))']_vars

\* C35: the refresh flag is set only while a cycle is in flight; every answer
\* to a request of a cycle, a failure included, takes that request out of the
\* cycle, and the answer to the cycle's last request ends the cycle and clears
\* the flag; and when every request settles, a flag that is set is cleared in
\* the end (for as long as the view is mounted).
C35_RefreshCycleEnds ==
  /\ [](globRefreshing => CyclesInFlight > 0)
  /\ [][\A pending \in SUBSET Repos \ {{}} : \A r \in pending :
          \A data \in SummaryAnswers(r) :
            refreshResponse(pending, r, data) =>
              /\ cycles'[pending] = cycles[pending] - 1
              /\ pending # {r} => cycles'[pending \ {r}] = cycles[pending \ {r}] + 1
              /\ pending = {r} => /\ ~globRefreshing'
                                  /\ CyclesInFlight' = CyclesInFlight - 1]_vars
  /\ globRefreshing ~> (~globRefreshing \/ ~mounted)

\* A cycle is at its last request after its request for the first repository
\* has failed: that repository has no counts, though neither its bulk summary
\* nor the cycle's summary is in flight any more.
C35_Witness ==
  /\ mounted /\ globRefreshing
  /\ cycles[{RepoList[2]}] > 0 /\ CyclesInFlight = 1
  /\ RepoList[1] \notin summaryPending
  /\ RepoList[1] \in filesPending
  /\ ~HasCounts(RepoList[1])

\* The shape of an entry: its total (nothing while the counters are unknown)
\* and the paths of its file list, in order (nothing while no list is loaded).
TotalIn(prev, repoId) ==
  IF Get(prev, repoId).counts # None THEN Some(Get(prev, repoId).counts[1].total) ELSE None

PathsIn(prev, repoId) ==
  IF Get(prev, repoId).files # None
    THEN Some([i \in DOMAIN Get(prev, repoId).files[1] |-> Get(prev, repoId).files[1][i].path])
    ELSE None

\* C36: a file event and the answer to the delete request of a Reset leave
\* the total and the paths of every entry as they were; a step that changes
\* the total or the paths of r's entry is the answer to a read of r (bulk
\* summary, bulk detail, reconcile, summary re-read).
C36_ShapeOnlyFromReads ==
  [][\A r \in Repos :
       /\ (\/ \E path \in EventPaths(r), ok \in BOOLEAN : fileEvent(r, path, ok)
           \/ \E h \in BOOLEAN, outcome \in Outcomes : deleteResponse(r, h, outcome))
            => \A q \in Repos :
                 /\ TotalIn(prefetched', q) = TotalIn(prefetched, q)
                 /\ PathsIn(prefetched', q) = PathsIn(prefetched, q)
       /\ (\/ TotalIn(prefetched', r) # TotalIn(prefetched, r)
           \/ PathsIn(prefetched', r) # PathsIn(prefetched, r))
            => \/ \E data \in SummaryAnswers(r) : summaryResponse(r, data)
               \/ \E data \in FilesAnswers(r) : filesResponse(r, data)
               \/ \E data \in FilesAnswers(r) : reconcileResponse(r, data)
               \/ \E data \in SummaryAnswers(r) : rereadResponse(r, data)]_vars

\* C37: the done event releases the index marker before its reconcile read
\* has returned; when that read fails, the step changes no cache entry (the
\* counters and file states of the file events stay), takes the read out of
\* the reads in flight, sets no marker, opens no stream and sends no request.
C37_FailedReconcileKeepsProgress ==
  [][\A r \in Repos :
       /\ doneEvent(r) => indexingRepoId' = Null /\ reconciles'[r] = reconciles[r] + 1
       /\ reconcileResponse(r, None) =>
            /\ prefetched' = prefetched
            /\ reconciles' = [reconciles EXCEPT ![r] = @ - 1]
            /\ indexingRepoId' = indexingRepoId
            /\ indexingRepoId' = r => streams[r] > 0
            /\ streams' = streams
            /\ summaryPending' = summaryPending /\ filesPending' = filesPending
            /\ deletes' = deletes /\ rereads' = rereads]_vars

\* The stream of the first repository has ended with done after file events
\* that only a stream can have left in the entry (both files marked, three
\* events counted for a total of two); the marker is released and the
\* reconcile read is in flight.
C37_Witness ==
  /\ reconciles[RepoList[1]] > 0
  /\ streams[RepoList[1]] = 0
  /\ indexingRepoId = Null
  /\ HasFiles(RepoList[1]) /\ nIdx(Entry(RepoList[1]).files[1]) = 2
  /\ HasCounts(RepoList[1])
  /\ Entry(RepoList[1]).counts[1] = [total |-> 2, indexed |-> 3]

\* The texts of a repository's messages that JSON.parse rejects.
RejectedOf == [repoId \in Repos |-> {text \in Payloads(repoId) : JSONparse(text) = None}]

\* C38: a "file" message whose text JSON.parse rejects changes nothing (no
\* counters, no file state, no marker, and the stream stays open); and a
\* message the server means to send is parsed to its path and its ok: with
\* ok=true it adds 1 to the counter and marks the named file, from the state
\* the rejected message left.
C38_UnparsableIsIgnored ==
  [][\A r \in Repos :
       /\ \A text \in RejectedOf[r] : fileMessage(r, text) => UNCHANGED vars
       /\ \A p \in EventPaths(r) :
            /\ fileMessage(r, Message(p, "true")) =>
                 /\ prefetched' = markFileIndexed(bumpCounts(prefetched, r, 1), r, p)
                 /\ Get(prefetched', r).counts = Some(CountsAfterOk(r))
                 /\ streams' = streams /\ indexingRepoId' = indexingRepoId
            /\ fileMessage(r, Message(p, "false")) => UNCHANGED vars]_vars

\* A stream of the first repository is open on a loaded list and its
\* messages have been applied (both files marked, three messages counted
\* for a total of two); a message, rejected or not, can arrive next.
C38_Witness ==
  /\ streams[RepoList[1]] > 0 /\ isIndexing(RepoList[1])
  /\ HasFiles(RepoList[1]) /\ nIdx(Entry(RepoList[1]).files[1]) = 2
  /\ HasCounts(RepoList[1]) /\ Entry(RepoList[1]).counts[1] = [total |-> 2, indexed |-> 3]
  /\ RejectedOf[RepoList[1]] # {}

====
